---- MODULE Spec2Model ----
(***************************************************************************)
(* State-machine model of src/index.tsx: the App component (version,       *)
(* roster, detail cache, pricing index, favorites with localStorage        *)
(* persistence, total cost) and the SkinModal component (detail lookup     *)
(* with fallback fetch, splash preload gate, carousel index).              *)
(*                                                                         *)
(* Strings of the program are sequences of integers (character codes);     *)
(* a JSON text is a sequence of tokens.                                    *)
(***************************************************************************)
EXTENDS Integers, Sequences, FiniteSets, TLC

\* ------------------------------------------------------------------ bounds
\* number of characters the provider's roster holds
MaxChamps == 2
\* number of cosmetics of the first character (the others have one)
MaxSkins == 3
\* longest favorites list explored
MaxFavs == 3
\* number of page loads (sessions) explored
MaxSessions == 2
\* number of pricing-feed records in a feed
MaxFeedKeys == 2
\* number of entries of the version registry response
MaxVersions == 2

\* ----------------------------------------------------- provider data (input)
ChampionKeys == 1..MaxChamps

SkinCount(c) == IF c = 1 THEN MaxSkins ELSE 1

\* one record of the character-summary response
Champion(c) == [id |-> <<c>>, name |-> <<c, c>>]

\* one cosmetic of the character-detail response: id is the decimal string
\* made of the character key followed by the variant index
Skin(c, n) == [id |-> <<c, n>>, num |-> n, name |-> <<n, c, n>>, chromas |-> (n = 1)]

\* the character-detail record data.data[champion.id]
ChampionFull(c) ==
    [id |-> <<c>>, name |-> <<c, c>>, skins |-> [i \in 1..SkinCount(c) |-> Skin(c, i - 1)]]

\* null values of the component state
NoVersion == <<>>
NoChampion == [id |-> <<>>, name |-> <<>>]
NoDetails == [id |-> <<>>, name |-> <<>>, skins |-> <<>>]

\* the version registry responses: lists of version strings, newest first
VersionString(i) == <<1, 4, MaxVersions - i>>
VersionLists == {[i \in 1..n |-> VersionString(i)] : n \in 0..MaxVersions}

AllSkinRefs == {<<c, n>> : c \in ChampionKeys, n \in 0..(MaxSkins - 1)}
SkinRefs == {r \in AllSkinRefs : r[2] < SkinCount(r[1])}

\* ---------------------------------------------------------------- parseInt
RECURSIVE parseIntAcc(_, _)
parseIntAcc(s, acc) ==
    IF s = <<>> THEN acc ELSE parseIntAcc(Tail(s), 10 * acc + Head(s))

\* parseInt of a string of decimal digits
parseInt(s) == parseIntAcc(s, 0)

\* ----------------------------------------------------------- JSON (tokens)
Tok(k, s, v) == [k |-> k, s |-> s, v |-> v]
Punct(k) == Tok(k, "", <<>>)
KeyTok(name) == Tok("key", name, <<>>)
StrTok(v) == Tok("str", "", v)
NumTok(n) == Tok("num", "", <<n>>)
BoolTok(b) == Tok(IF b THEN "true" ELSE "false", "", <<>>)

\* JSON.stringify of one FavoriteSkin object: own keys in creation order
StringifyEntry(e) ==
    << Punct("{"),
       KeyTok("id"), StrTok(e.id), Punct(","),
       KeyTok("num"), NumTok(e.num), Punct(","),
       KeyTok("name"), StrTok(e.name), Punct(","),
       KeyTok("chromas"), BoolTok(e.chromas), Punct(","),
       KeyTok("championId"), StrTok(e.championId), Punct(","),
       KeyTok("championName"), StrTok(e.championName),
       Punct("}") >>

RECURSIVE StringifyItems(_)
StringifyItems(list) ==
    IF list = <<>> THEN <<>>
    ELSE IF Len(list) = 1 THEN StringifyEntry(list[1])
    ELSE StringifyEntry(list[1]) \o <<Punct(",")>> \o StringifyItems(Tail(list))

\* JSON.stringify(favorites)
JSONstringify(list) == <<Punct("[")>> \o StringifyItems(list) \o <<Punct("]")>>

Drop(s, n) == SubSeq(s, n + 1, Len(s))

ParseFail == [ok |-> FALSE, val |-> <<>>, rest |-> <<>>]

\* a scalar value token: string, number, true, false
ScalarOf(t) ==
    IF t.k = "str" THEN t.v
    ELSE IF t.k = "num" THEN t.v[1]
    ELSE (t.k = "true")

IsScalar(t) == t.k \in {"str", "num", "true", "false"}

\* members of an object after "{": key value ("," key value)* "}"
RECURSIVE ParseMembers(_, _)
ParseMembers(ts, obj) ==
    IF Len(ts) < 3 \/ ts[1].k # "key" \/ ~IsScalar(ts[2]) THEN ParseFail
    ELSE LET o == (ts[1].s :> ScalarOf(ts[2])) @@ obj
         IN  IF ts[3].k = "}" THEN [ok |-> TRUE, val |-> o, rest |-> Drop(ts, 3)]
             ELSE IF ts[3].k = "," THEN ParseMembers(Drop(ts, 3), o)
             ELSE ParseFail

\* an object: "{" "}" or "{" members
ParseObject(ts) ==
    IF Len(ts) < 2 \/ ts[1].k # "{" THEN ParseFail
    ELSE IF ts[2].k = "}" THEN [ok |-> TRUE, val |-> <<>>, rest |-> Drop(ts, 2)]
    ELSE ParseMembers(Tail(ts), <<>>)

\* elements of an array after "[": object ("," object)* "]"
RECURSIVE ParseElements(_, _)
ParseElements(ts, items) ==
    LET r == ParseObject(ts)
    IN  IF ~r.ok \/ r.rest = <<>> THEN ParseFail
        ELSE IF r.rest[1].k = "]"
             THEN [ok |-> TRUE, val |-> Append(items, r.val), rest |-> Tail(r.rest)]
        ELSE IF r.rest[1].k = ","
             THEN ParseElements(Tail(r.rest), Append(items, r.val))
        ELSE ParseFail

\* JSON.parse of a text: ok = FALSE is a SyntaxError; kind is the type of the
\* parsed value, items the elements when it is an array
JSONparse(ts) ==
    IF ts = <<>> THEN [ok |-> FALSE, kind |-> "none", items |-> <<>>]
    ELSE IF ts[1].k = "[" THEN
        IF Len(ts) = 2 /\ ts[2].k = "]" THEN [ok |-> TRUE, kind |-> "array", items |-> <<>>]
        ELSE LET r == ParseElements(Tail(ts), <<>>)
             IN  IF r.ok /\ r.rest = <<>>
                 THEN [ok |-> TRUE, kind |-> "array", items |-> r.val]
                 ELSE [ok |-> FALSE, kind |-> "none", items |-> <<>>]
    ELSE IF ts[1].k = "{" THEN
        LET r == ParseObject(ts)
        IN  IF r.ok /\ r.rest = <<>>
            THEN [ok |-> TRUE, kind |-> "object", items |-> <<>>]
            ELSE [ok |-> FALSE, kind |-> "none", items |-> <<>>]
    ELSE IF Len(ts) = 1 /\ ts[1].k \in {"num", "str", "true", "false", "null"} THEN
        [ok |-> TRUE,
         kind |-> IF ts[1].k = "null" THEN "null"
                  ELSE IF ts[1].k = "num" THEN "number"
                  ELSE IF ts[1].k = "str" THEN "string" ELSE "boolean",
         items |-> <<>>]
    ELSE [ok |-> FALSE, kind |-> "none", items |-> <<>>]

\* ------------------------------------------------------------ localStorage
\* the value under the key 'favoriteSkins': absent, or a text
NoItem == [present |-> FALSE, text |-> <<>>]
Item(text) == [present |-> TRUE, text |-> text]

\* stored values no session of the program wrote
MalformedTexts ==
    { <<>>,                                   \* the empty string
      <<Tok("junk", "not", <<>>), Tok("junk", "json", <<>>)>>,   \* not json
      <<NumTok(42)>>,                         \* a number
      <<Punct("{"), Punct("}")>>,             \* an object
      <<Punct("null")>>,                      \* null
      <<Punct("["), Punct("{")>> }            \* a truncated list

InitialItems == {NoItem} \cup {Item(t) : t \in MalformedTexts}

\* ------------------------------------------------------------ pricing feed
\* one record of the pricing feed; rarityGem "" stands for an absent field
CostValues == {-1, 0, 975}
SaleCostValues == {-1, 0, 487}
RarityGems == {"", "kEpic"}
FeedRecords == [cost : CostValues, saleCost : SaleCostValues, rarityGem : RarityGems]

\* the feed is keyed by cosmetic identifier, as a string
FeedKeys == {<<1, n>> : n \in 0..(MaxFeedKeys - 1)}
Feeds == [FeedKeys -> FeedRecords]

\* a few feeds mixing priced, sale-only and zero-cost records
RotatedCost(i) == IF i % 3 = 0 THEN 975 ELSE IF i % 3 = 1 THEN -1 ELSE 0
SampleFeeds ==
    { [k \in FeedKeys |-> [cost |-> RotatedCost(k[2] + j),
                           saleCost |-> IF j = 2 THEN 0 ELSE 487,
                           rarityGem |-> IF j = 1 THEN "" ELSE "kEpic"]] : j \in 0..2 }

EmptyMap == [k \in {} |-> 0]

\* the test of line 212; a number is truthy when it is not 0
FeedRecordKept(skinData) ==
    skinData.cost # 0 /\ (skinData.cost # -1 \/ skinData.saleCost # -1)

\* the value stored for a kept record (lines 213-216)
SkinInfoOf(skinData) ==
    [price |-> IF skinData.cost = -1 THEN skinData.saleCost ELSE skinData.cost,
     rarity |-> IF skinData.rarityGem = "" THEN "None" ELSE skinData.rarityGem]

\* the Map built from the feed (lines 209-218)
BuildInfoMap(data) ==
    LET kept == {k \in DOMAIN data : FeedRecordKept(data[k])}
    IN  [i \in {parseInt(k) : k \in kept} |->
            SkinInfoOf(data[CHOOSE k \in kept : parseInt(k) = i])]

\* --------------------------------------------------------------- favorites
\* faulty variant of FavoriteSkin: the character's name stored under both keys
FavoriteSkin_nameForId(skin, championInfo) ==
    [id |-> skin.id, num |-> skin.num, name |-> skin.name, chromas |-> skin.chromas,
     championId |-> championInfo.name, championName |-> championInfo.name]

\* { ...skin, championId: championInfo.id, championName: championInfo.name }
FavoriteSkin(skin, championInfo) ==
    [id |-> skin.id, num |-> skin.num, name |-> skin.name, chromas |-> skin.chromas,
     championId |-> championInfo.id, championName |-> championInfo.name]

\* faulty variant of findIndex: the entry compared with the skin object
\* itself, which never matches
findIndex_neverMatches(prev, skinId) == -1

\* prev.findIndex(fav => fav.id === skin.id): 0-based, -1 when absent
findIndex(prev, skinId) ==
    IF \E i \in 1..Len(prev) : prev[i].id = skinId
    THEN (CHOOSE i \in 1..Len(prev) :
            prev[i].id = skinId /\ \A j \in 1..(i - 1) : prev[j].id # skinId) - 1
    ELSE -1

\* prev.filter((_, index) => index !== existingIndex)
filterOut(prev, existingIndex) ==
    [i \in 1..(Len(prev) - 1) |-> IF i - 1 < existingIndex THEN prev[i] ELSE prev[i + 1]]

\* faulty variant of toggleFavorite: a new entry is put in front
toggleFavorite_prepends(prev, skin, championInfo) ==
    IF \E i \in 1..Len(prev) : prev[i].id = skin.id
    THEN SelectSeq(prev, LAMBDA fav : fav.id # skin.id)
    ELSE <<[id |-> skin.id, num |-> skin.num, name |-> skin.name, chromas |-> skin.chromas,
            championId |-> championInfo.id, championName |-> championInfo.name]>> \o prev

\* the updater handleToggleFavorite passes to setFavorites
toggleFavorite(prev, skin, championInfo) ==
    LET existingIndex == findIndex(prev, skin.id)
    IN  IF existingIndex > -1
        THEN filterOut(prev, existingIndex)
        ELSE Append(prev, FavoriteSkin(skin, championInfo))

\* faulty variant of Hydrate: a parsed value that is no list is wrapped into
\* a one-element list instead of being dropped
Hydrate_wrapsNonList(item) ==
    IF ~item.present \/ item.text = <<>> THEN <<>>
    ELSE LET initial == JSONparse(item.text)
         IN  IF ~initial.ok THEN <<>>
             ELSE IF initial.kind = "array" THEN initial.items
             ELSE <<[id |-> <<>>, num |-> 0, name |-> <<>>, chromas |-> FALSE,
                     championId |-> <<>>, championName |-> <<>>]>>

\* the useState initializer of favorites
Hydrate(item) ==
    IF ~item.present \/ item.text = <<>> THEN <<>>
    ELSE LET initial == JSONparse(item.text)
         IN  IF ~initial.ok THEN <<>>
             ELSE IF initial.kind = "array" THEN initial.items ELSE <<>>

\* faulty variant of persistEffect: an empty list is not written
persistEffect_skipsEmpty(favs, stored) ==
    IF favs = <<>> THEN stored ELSE Item(JSONstringify(favs))

\* the item after the persist effect ran for a favorites list:
\* localStorage.setItem('favoriteSkins', JSON.stringify(favorites))
persistEffect(favs, stored) == Item(JSONstringify(favs))

\* favorites.reduce(...) of totalRp; a price is truthy when it is not 0
RECURSIVE reduceTotal(_, _, _)
reduceTotal(favs, info, acc) ==
    IF favs = <<>> THEN acc
    ELSE LET key == parseInt(Head(favs).id)
         IN  IF key \in DOMAIN info /\ info[key].price # 0
             THEN reduceTotal(Tail(favs), info, acc + info[key].price)
             ELSE reduceTotal(Tail(favs), info, acc)

\* faulty variant of ComputeTotalRp: the index is read by the variant number
ComputeTotalRp_byNum(favs, info) ==
    reduceTotal([i \in 1..Len(favs) |-> [favs[i] EXCEPT !.id = <<favs[i].num>>]], info, 0)

\* useMemo(() => ..., [favorites, skinInfo])
ComputeTotalRp(favs, info) == reduceTotal(favs, info, 0)

\* ------------------------------------------------------------------- state
VARIABLES
    mounted,            \* the App component is mounted (a session is running)
    session,            \* number of the page load
    storage,            \* localStorage item 'favoriteSkins'
    favorites,          \* App state: FavoriteSkin[]
    skinInfo,           \* App state: Map<number, SkinInfo>
    priceFetch,         \* fetch(SKIN_PRICE_URL): "idle", "pending", "ok", "failed"
    priceData,          \* the body of the pricing response, once it arrived
    totalRp,            \* the memoized total
    lastToggle,         \* history: the arguments of the last handleToggleFavorite call
                        \* of the session and the list before it
    latestVersion,      \* App state: a version string, <<>> for null
    isLoading,          \* App state
    champions,          \* App state: Champion[]
    versionFetch,       \* fetch(VERSIONS_URL)
    summaryFetch,       \* fetch(CHAMPION_SUMMARY_URL)
    detailFetch,        \* per character key: state of its pre-cache fetch
    championDetailsCache, \* App state: Map<string, ChampionFull>
    selectedChampion,   \* App state: a Champion, NoChampion for null
    championDetails,    \* SkinModal state: a ChampionFull, NoDetails for null
    currentSkinIndex,   \* SkinModal state
    imagesLoading,      \* SkinModal state
    batches,            \* preload batches the mounted modal started
    fallbacks,          \* fallback fetches of the mounted modal in flight
    lastNav             \* history: the last carousel operation and the index before it

favVars == <<mounted, session, storage, favorites, skinInfo, priceFetch, priceData,
             totalRp, lastToggle>>
appVars == <<latestVersion, isLoading, champions, versionFetch, summaryFetch,
             detailFetch, championDetailsCache, selectedChampion>>
modalVars == <<championDetails, currentSkinIndex, imagesLoading, batches, fallbacks, lastNav>>
vars == <<favVars, appVars, modalVars>>

NoSkin == [id |-> <<>>, num |-> 0, name |-> <<>>, chromas |-> FALSE]
NoToggle == [op |-> "none", skin |-> NoSkin, champion |-> NoChampion, before |-> <<>>]
NoNav == [op |-> "none", before |-> 0, run |-> 0, start |-> 0]

\* the state of the components before the first render
Unmounted ==
    /\ mounted = FALSE
    /\ favorites = <<>>
    /\ skinInfo = EmptyMap
    /\ priceFetch = "idle"
    /\ priceData = EmptyMap
    /\ totalRp = 0
    /\ lastToggle = NoToggle
    /\ latestVersion = NoVersion
    /\ isLoading = TRUE
    /\ champions = <<>>
    /\ versionFetch = "idle"
    /\ summaryFetch = "idle"
    /\ detailFetch = [c \in ChampionKeys |-> "idle"]
    /\ championDetailsCache = EmptyMap
    /\ selectedChampion = NoChampion
    /\ championDetails = NoDetails
    /\ currentSkinIndex = 0
    /\ imagesLoading = TRUE
    /\ batches = <<>>
    /\ fallbacks = 0
    /\ lastNav = NoNav

Init ==
    /\ Unmounted
    /\ session = 1
    /\ storage \in InitialItems

\* ------------------------------------------------------------- App actions
\* first render of App: the useState initializers, then the mount effects
\* (version fetch and pricing fetch issued, favorites persisted)
Mount ==
    /\ ~mounted
    /\ mounted' = TRUE
    /\ favorites' = Hydrate(storage)
    /\ storage' = persistEffect(favorites', storage)
    /\ totalRp' = ComputeTotalRp(favorites', skinInfo)
    /\ versionFetch' = "pending"
    /\ priceFetch' = "pending"
    /\ UNCHANGED <<session, skinInfo, priceData, lastToggle, latestVersion, isLoading,
                   champions, summaryFetch, detailFetch, championDetailsCache,
                   selectedChampion, modalVars>>

\* setFavorites(updater) followed by the persist effect and the memo
SetFavorites(skin, championInfo) ==
    /\ favorites' = toggleFavorite(favorites, skin, championInfo)
    /\ storage' = persistEffect(favorites', storage)
    /\ totalRp' = ComputeTotalRp(favorites', skinInfo)
    /\ lastToggle' = [op |-> "toggle",
                      skin |-> [id |-> skin.id, num |-> skin.num, name |-> skin.name,
                                chromas |-> skin.chromas],
                      champion |-> [id |-> championInfo.id, name |-> championInfo.name],
                      before |-> favorites]

\* the heart button of the modal: onToggleFavorite(currentSkin, championDetails)
ToggleFromModal ==
    \E r \in SkinRefs :
        /\ mounted
        /\ (findIndex(favorites, Skin(r[1], r[2]).id) = -1) => (Len(favorites) < MaxFavs)
        /\ SetFavorites(Skin(r[1], r[2]), ChampionFull(r[1]))
        /\ UNCHANGED <<mounted, session, skinInfo, priceFetch, priceData, appVars, modalVars>>

\* the remove button of the favorites panel:
\* handleToggleFavorite(fav, {id: fav.championId, name: fav.championName})
ToggleFromPanel ==
    \E i \in 1..Len(favorites) :
        /\ mounted
        /\ SetFavorites(favorites[i],
                        [id |-> favorites[i].championId, name |-> favorites[i].championName])
        /\ UNCHANGED <<mounted, session, skinInfo, priceFetch, priceData, appVars, modalVars>>

\* the pricing response arrives with status ok: build the index
PriceArrives(data) ==
    /\ priceFetch = "pending"
    /\ priceFetch' = "ok"
    /\ priceData' = data
    /\ skinInfo' = BuildInfoMap(data)
    /\ totalRp' = ComputeTotalRp(favorites, skinInfo')
    /\ UNCHANGED <<mounted, session, storage, favorites, lastToggle, appVars, modalVars>>

\* non-ok status or network error: logged, the index stays empty
PriceFails ==
    /\ priceFetch = "pending"
    /\ priceFetch' = "failed"
    /\ UNCHANGED <<mounted, session, storage, favorites, skinInfo, priceData, totalRp,
                   lastToggle, appVars, modalVars>>

\* the page is closed and loaded again: component state is lost, the
\* localStorage item stays
Reload ==
    /\ mounted
    /\ session < MaxSessions
    /\ session' = session + 1
    /\ UNCHANGED storage
    /\ mounted' = FALSE
    /\ favorites' = <<>>
    /\ skinInfo' = EmptyMap
    /\ priceFetch' = "idle"
    /\ priceData' = EmptyMap
    /\ totalRp' = 0
    /\ lastToggle' = NoToggle
    /\ latestVersion' = NoVersion
    /\ isLoading' = TRUE
    /\ champions' = <<>>
    /\ versionFetch' = "idle"
    /\ summaryFetch' = "idle"
    /\ detailFetch' = [c \in ChampionKeys |-> "idle"]
    /\ championDetailsCache' = EmptyMap
    /\ selectedChampion' = NoChampion
    /\ championDetails' = NoDetails
    /\ currentSkinIndex' = 0
    /\ imagesLoading' = TRUE
    /\ batches' = <<>>
    /\ fallbacks' = 0
    /\ lastNav' = NoNav

\* the version registry responds with a list: setLatestVersion(versions[0]);
\* a truthy version starts the roster effect, which fetches the summary
VersionArrives(versions) ==
    /\ versionFetch = "pending"
    /\ versionFetch' = "ok"
    /\ latestVersion' = IF versions = <<>> THEN NoVersion ELSE versions[1]
    /\ summaryFetch' = IF latestVersion' = NoVersion THEN summaryFetch ELSE "pending"
    /\ UNCHANGED <<favVars, isLoading, champions, detailFetch, championDetailsCache,
                   selectedChampion, modalVars>>

\* faulty variant of VersionFails: the handler falls back to a built-in version
VersionFails_fallbackVersion ==
    /\ versionFetch = "pending"
    /\ versionFetch' = "failed"
    /\ isLoading' = FALSE
    /\ latestVersion' = VersionString(MaxVersions)
    /\ summaryFetch' = "pending"
    /\ UNCHANGED <<favVars, champions, detailFetch, championDetailsCache,
                   selectedChampion, modalVars>>

\* the version fetch rejects (network error, unparseable body): the catch
\* handler logs and calls setIsLoading(false)
VersionFails ==
    /\ versionFetch = "pending"
    /\ versionFetch' = "failed"
    /\ isLoading' = FALSE
    /\ UNCHANGED <<favVars, latestVersion, champions, summaryFetch, detailFetch,
                   championDetailsCache, selectedChampion, modalVars>>

\* the summary responds: roster set, loading cleared, every detail fetch issued
SummaryArrives ==
    /\ summaryFetch = "pending"
    /\ summaryFetch' = "ok"
    /\ champions' = [c \in ChampionKeys |-> Champion(c)]
    /\ isLoading' = FALSE
    /\ detailFetch' = [c \in ChampionKeys |-> "pending"]
    /\ UNCHANGED <<favVars, latestVersion, versionFetch, championDetailsCache,
                   selectedChampion, modalVars>>

\* the summary fetch rejects: the chain has no catch, nothing is set
SummaryFails ==
    /\ summaryFetch = "pending"
    /\ summaryFetch' = "failed"
    /\ UNCHANGED <<favVars, latestVersion, isLoading, champions, versionFetch, detailFetch,
                   championDetailsCache, selectedChampion, modalVars>>

\* faulty variant of cacheSet: the entry is set on a copy of the Map the
\* roster effect captured (the empty one) instead of the updater's prevCache
cacheSet_onCapturedMap(prevCache, id, details) ==
    [k \in {id} |-> details]

\* newCache.set(champ.id, detailData.data[champ.id]) on a copy of prevCache
cacheSet(prevCache, id, details) ==
    [k \in DOMAIN prevCache \cup {id} |-> IF k = id THEN details ELSE prevCache[k]]

\* a batch of splash preloads under one Promise.all: images not yet settled,
\* and whether one of them has failed (the Promise.all is then rejected)
NewBatch(details) == [pending |-> Len(details.skins), failed |-> FALSE]

\* the effect of SkinModal (lines 91-113) for `champion` against `cache`,
\* given the modal's current details, batches and fallback fetches
ModalEffect(champion, cache, curDetails, curBatches, curFallbacks) ==
    IF champion.id \in DOMAIN cache
    THEN /\ championDetails' = cache[champion.id]
         /\ batches' = Append(curBatches, NewBatch(cache[champion.id]))
         /\ fallbacks' = curFallbacks
    ELSE /\ championDetails' = curDetails
         /\ batches' = curBatches
         /\ fallbacks' = curFallbacks + 1

\* one pre-cache detail response arrives: the cache gets the entry; the new
\* Map re-runs the effect of a mounted modal
DetailArrives(c) ==
    /\ detailFetch[c] = "pending"
    /\ detailFetch' = [detailFetch EXCEPT ![c] = "ok"]
    /\ championDetailsCache' = cacheSet(championDetailsCache, <<c>>, ChampionFull(c))
    /\ IF selectedChampion # NoChampion
       THEN ModalEffect(selectedChampion, championDetailsCache', championDetails,
                        batches, fallbacks)
       ELSE UNCHANGED <<championDetails, batches, fallbacks>>
    /\ UNCHANGED <<favVars, latestVersion, isLoading, champions, versionFetch, summaryFetch,
                   selectedChampion, currentSkinIndex, imagesLoading, lastNav>>

\* one pre-cache detail fetch rejects: nothing is set
DetailFails(c) ==
    /\ detailFetch[c] = "pending"
    /\ detailFetch' = [detailFetch EXCEPT ![c] = "failed"]
    /\ UNCHANGED <<favVars, latestVersion, isLoading, champions, versionFetch, summaryFetch,
                   championDetailsCache, selectedChampion, modalVars>>

DetailArrivesSome == \E c \in ChampionKeys : DetailArrives(c)
DetailFailsSome == \E c \in ChampionKeys : DetailFails(c)

\* ----------------------------------------------------------- modal actions
\* a click on a roster card: setSelectedChampion(champion); the modal mounts
\* with its initial state and runs its effect
OpenModal ==
    \E i \in 1..Len(champions) :
        /\ ~isLoading
        /\ latestVersion # NoVersion
        /\ selectedChampion = NoChampion
        /\ selectedChampion' = champions[i]
        /\ currentSkinIndex' = 0
        /\ imagesLoading' = TRUE
        /\ ModalEffect(champions[i], championDetailsCache, NoDetails, <<>>, 0)
        /\ lastNav' = [op |-> "open", before |-> 0, run |-> 0, start |-> 0]
        /\ UNCHANGED <<favVars, latestVersion, isLoading, champions, versionFetch,
                       summaryFetch, detailFetch, championDetailsCache>>

\* onClose (the close button and the overlay exist once details are shown):
\* the modal unmounts, its state and pending callbacks are dropped
CloseModal ==
    /\ selectedChampion # NoChampion
    /\ championDetails # NoDetails
    /\ selectedChampion' = NoChampion
    /\ championDetails' = NoDetails
    /\ currentSkinIndex' = 0
    /\ imagesLoading' = TRUE
    /\ batches' = <<>>
    /\ fallbacks' = 0
    /\ lastNav' = NoNav
    /\ UNCHANGED <<favVars, latestVersion, isLoading, champions, versionFetch, summaryFetch,
                   detailFetch, championDetailsCache>>

\* the remainder operator of the language: the sign follows the dividend
jsRem(a, n) == IF a >= 0 THEN a % n ELSE 0 - ((0 - a) % n)

\* the updater of handleNext
nextIndex(prev, length) == jsRem(prev + 1, length)

\* faulty variant of prevIndex: the length is not added before the remainder
prevIndex_noWrap(prev, length) == jsRem(prev - 1, length)

\* the updater of handlePrev
prevIndex(prev, length) == jsRem(prev - 1 + length, length)

\* handleNext
HandleNext ==
    /\ championDetails # NoDetails
    /\ currentSkinIndex' = nextIndex(currentSkinIndex, Len(championDetails.skins))
    /\ lastNav' = IF lastNav.op = "next" /\ lastNav.run < Len(championDetails.skins)
                  THEN [lastNav EXCEPT !.before = currentSkinIndex, !.run = @ + 1]
                  ELSE [op |-> "next", before |-> currentSkinIndex, run |-> 1,
                        start |-> currentSkinIndex]
    /\ UNCHANGED <<favVars, appVars, championDetails, imagesLoading, batches, fallbacks>>

\* handlePrev
HandlePrev ==
    /\ championDetails # NoDetails
    /\ currentSkinIndex' = prevIndex(currentSkinIndex, Len(championDetails.skins))
    /\ lastNav' = [op |-> "prev", before |-> currentSkinIndex, run |-> 0, start |-> 0]
    /\ UNCHANGED <<favVars, appVars, championDetails, imagesLoading, batches, fallbacks>>

\* the value of imagesLoading after a batch changed: the Promise.all of a batch
\* fulfils, and its then-callback calls setImagesLoading(false), when its last
\* image has loaded and none has failed
gateAfter(batch, loading) ==
    IF batch.pending = 0 /\ ~batch.failed THEN FALSE ELSE loading

\* img.onload of one image of batch b: resolve
ImageLoads(b) ==
    /\ batches[b].pending > 0
    /\ batches' = [batches EXCEPT ![b].pending = @ - 1]
    /\ imagesLoading' = gateAfter(batches'[b], imagesLoading)
    /\ UNCHANGED <<favVars, appVars, championDetails, currentSkinIndex, fallbacks, lastNav>>

\* img.onerror of one image of batch b: reject
ImageErrors(b) ==
    /\ batches[b].pending > 0
    /\ batches' = [batches EXCEPT ![b].pending = @ - 1, ![b].failed = TRUE]
    /\ imagesLoading' = gateAfter(batches'[b], imagesLoading)
    /\ UNCHANGED <<favVars, appVars, championDetails, currentSkinIndex, fallbacks, lastNav>>

ImageLoadsSome == \E b \in 1..Len(batches) : ImageLoads(b)
ImageErrorsSome == \E b \in 1..Len(batches) : ImageErrors(b)

\* faulty variant of FallbackArrives: the fetched record is also merged into
\* the shared cache
FallbackArrives_cachesResult ==
    /\ fallbacks > 0
    /\ fallbacks' = fallbacks - 1
    /\ championDetails' = ChampionFull(selectedChampion.id[1])
    /\ championDetailsCache' =
            [k \in DOMAIN championDetailsCache \cup {selectedChampion.id} |->
                IF k = selectedChampion.id THEN championDetails'
                ELSE championDetailsCache[k]]
    /\ UNCHANGED <<favVars, latestVersion, isLoading, champions, versionFetch, summaryFetch,
                   detailFetch, selectedChampion, currentSkinIndex, imagesLoading, batches,
                   lastNav>>

\* a fallback detail response arrives: setChampionDetails(data.data[champion.id])
FallbackArrives ==
    /\ fallbacks > 0
    /\ fallbacks' = fallbacks - 1
    /\ championDetails' = ChampionFull(selectedChampion.id[1])
    /\ UNCHANGED <<favVars, appVars, currentSkinIndex, imagesLoading, batches, lastNav>>

\* a fallback detail fetch rejects: nothing is set
FallbackFails ==
    /\ fallbacks > 0
    /\ fallbacks' = fallbacks - 1
    /\ UNCHANGED <<favVars, appVars, championDetails, currentSkinIndex, imagesLoading,
                   batches, lastNav>>

VersionArrivesSome == \E versions \in VersionLists : VersionArrives(versions)

PriceArrivesSample == \E data \in SampleFeeds : PriceArrives(data)
PriceArrivesAny == \E data \in Feeds : PriceArrives(data)

NextFavorites ==
    \/ Mount
    \/ ToggleFromModal
    \/ ToggleFromPanel
    \/ PriceArrivesSample
    \/ PriceFails
    \/ Reload

\* favorites store, pricing index and total across sessions
SpecFavorites == Init /\ [][NextFavorites]_vars

NextPricing ==
    \/ Mount
    \/ PriceArrivesAny
    \/ PriceFails

\* the pricing index builder over every feed
SpecPricing == Init /\ [][NextPricing]_vars

Next ==
    \/ Mount
    \/ VersionArrivesSome
    \/ VersionFails
    \/ SummaryArrives
    \/ SummaryFails
    \/ DetailArrivesSome
    \/ DetailFailsSome
    \/ OpenModal
    \/ CloseModal
    \/ HandleNext
    \/ HandlePrev
    \/ ImageLoadsSome
    \/ ImageErrorsSome
    \/ FallbackArrives
    \/ FallbackFails

\* roster loading, detail cache and the skin modal
Spec == Init /\ [][Next]_vars

\* ================================================================ properties

\* C1: in a modal showing a character found in the Detail Cache, once every
\* splash preload it started has settled (loaded or failed) and no detail
\* response is outstanding that could start another, the artwork gate
\* imagesLoading is cleared.
C1_GateClearedOncePreloadsSettled ==
    ( /\ selectedChampion # NoChampion
      /\ selectedChampion.id \in DOMAIN championDetailsCache
      /\ \A c \in ChampionKeys : detailFetch[c] # "pending"
      /\ batches # <<>>
      /\ \A b \in 1..Len(batches) : batches[b].pending = 0 )
    => imagesLoading = FALSE

\* the position (1-based) of the entry with identifier id in list F, 0 if none
PositionOf(F, id) ==
    IF \E i \in 1..Len(F) : F[i].id = id
    THEN CHOOSE i \in 1..Len(F) : F[i].id = id
    ELSE 0

\* the list after the call recorded in lastToggle is made once more
ToggledAgain ==
    toggleFavorite(favorites, lastToggle.skin, lastToggle.champion)

\* C2 (as stated): toggling the same cosmetic twice in succession gives back
\* the list there was before the first call, entry for entry.
C2_ToggleTwiceRestoresList ==
    lastToggle.op = "toggle" => ToggledAgain = lastToggle.before

\* C2 (amended): toggling the same cosmetic twice in succession gives back the
\* same entries; the list is the one before the first call when the cosmetic
\* was absent from it or was its last entry, and otherwise that list with the
\* cosmetic's entry moved to the end, the other entries keeping their order.
C2_ToggleTwiceMovesToEnd ==
    lastToggle.op = "toggle" =>
        LET F == lastToggle.before
            G == ToggledAgain
            k == PositionOf(F, lastToggle.skin.id)
        IN  /\ Len(G) = Len(F)
            /\ {G[i] : i \in 1..Len(G)} = {F[i] : i \in 1..Len(F)}
            /\ (k = 0 \/ k = Len(F)) => G = F
            /\ (k # 0) =>
                /\ G[Len(G)] = F[k]
                /\ \A i \in 1..(k - 1) : G[i] = F[i]
                /\ \A i \in k..(Len(F) - 1) : G[i] = F[i + 1]

\* the first toggle of a pair removed an entry that was not the last one
C2_Witness ==
    /\ lastToggle.op = "toggle"
    /\ Len(lastToggle.before) >= 3
    /\ PositionOf(lastToggle.before, lastToggle.skin.id) = 2
    /\ Len(favorites) = Len(lastToggle.before) - 1

\* C3: the favorites list never holds two entries with the same cosmetic
\* identifier, after hydration and after any sequence of toggles.
C3_UniqueIdentifiers ==
    \A i, j \in 1..Len(favorites) : favorites[i].id = favorites[j].id => i = j

\* a list hydrated from the previous session and then extended by a toggle
C3_Witness ==
    /\ mounted
    /\ session > 1
    /\ lastToggle.op = "toggle"
    /\ Len(lastToggle.before) >= 1
    /\ Len(favorites) = Len(lastToggle.before) + 1
    /\ Len(favorites) >= 3

\* C4: every record of the pricing feed is indexed with price = cost when cost
\* is not -1 (0 included), with price = saleCost when cost is -1 and saleCost
\* is not, and is left out when both are -1.
C4_PricingIndexFollowsFeed ==
    priceFetch = "ok" =>
        \A k \in DOMAIN priceData :
            LET r == priceData[k]
                i == parseInt(k)
            IN  /\ r.cost # -1 => (i \in DOMAIN skinInfo /\ skinInfo[i].price = r.cost)
                /\ (r.cost = -1 /\ r.saleCost # -1) =>
                        (i \in DOMAIN skinInfo /\ skinInfo[i].price = r.saleCost)
                /\ (r.cost = -1 /\ r.saleCost = -1) => i \notin DOMAIN skinInfo

\* C5 (as stated): after a failed version fetch no summary fetch is issued,
\* the roster stays empty and isLoading stays set.
C5_FailedVersionKeepsLoading ==
    versionFetch = "failed" =>
        /\ summaryFetch = "idle"
        /\ champions = <<>>
        /\ isLoading = TRUE

\* C5 (amended): after a failed version fetch no version is set, no summary
\* fetch is issued and the roster stays empty, and the error handler has
\* cleared isLoading: the application shows the empty roster.
C5_FailedVersionEmptyRoster ==
    versionFetch = "failed" =>
        /\ latestVersion = NoVersion
        /\ summaryFetch = "idle"
        /\ champions = <<>>
        /\ \A c \in ChampionKeys : detailFetch[c] = "idle"
        /\ isLoading = FALSE

\* the version fetch has failed in a running session
C5_Witness ==
    /\ mounted
    /\ versionFetch = "failed"
    /\ priceFetch = "pending"

\* C6: hydration raises nothing and yields the empty list for a missing key,
\* for a text that does not parse and for a text that parses to a non-list.
C6_MalformedHydratesEmpty ==
    [][ (~mounted /\ mounted' /\ storage \in InitialItems) => favorites' = <<>> ]_vars

\* the first session has hydrated from one of the malformed items
C6_Witness ==
    /\ mounted
    /\ session = 1
    /\ lastToggle.op = "none"
    /\ favorites = <<>>
    /\ storage = Item(<<Punct("["), Punct("]")>>)

\* C7: while a session runs, the stored item is the serialization of the
\* current favorites list and hydrates to that very list, so the next session
\* starts from the list the previous one ended with.
C7_StoredItemIsCurrentList ==
    mounted =>
        /\ storage = Item(JSONstringify(favorites))
        /\ Hydrate(storage) = favorites

\* a later session has hydrated a list of several entries
C7_Witness ==
    /\ mounted
    /\ session > 1
    /\ lastToggle.op = "none"
    /\ Len(favorites) >= 2
    /\ favorites[1].championId # favorites[2].championId

\* the price the index holds for an entry, 0 when it holds none
PriceOrZero(fav, info) ==
    IF parseInt(fav.id) \in DOMAIN info THEN info[parseInt(fav.id)].price ELSE 0

RECURSIVE SumOfPrices(_, _, _)
SumOfPrices(favs, info, n) ==
    IF n = 0 THEN 0 ELSE SumOfPrices(favs, info, n - 1) + PriceOrZero(favs[n], info)

\* C8: the displayed total is the sum, over the current favorites, of the
\* price the current pricing index holds for the entry (0 when it holds
\* none), and is a non-negative integer.
C8_TotalIsSumOfPrices ==
    /\ totalRp = SumOfPrices(favorites, skinInfo, Len(favorites))
    /\ totalRp \in Nat

\* the feed arrived and the favorites mix priced and unpriced entries
C8_Witness ==
    /\ priceFetch = "ok"
    /\ Len(favorites) >= 3
    /\ totalRp > 975
    /\ \E i \in 1..Len(favorites) : parseInt(favorites[i].id) \notin DOMAIN skinInfo

\* C9: a toggle of an absent cosmetic appends one entry made of the
\* cosmetic's fields and the character's identifier and name; a toggle of a
\* present cosmetic removes its entry; the other entries keep content and order.
C9_ToggleFrame ==
    lastToggle.op = "toggle" =>
        LET F == lastToggle.before
            G == favorites
            x == lastToggle.skin
            k == PositionOf(F, x.id)
        IN  IF k = 0
            THEN /\ Len(G) = Len(F) + 1
                 /\ \A i \in 1..Len(F) : G[i] = F[i]
                 /\ G[Len(G)] = [id |-> x.id, num |-> x.num, name |-> x.name,
                                 chromas |-> x.chromas,
                                 championId |-> lastToggle.champion.id,
                                 championName |-> lastToggle.champion.name]
            ELSE /\ Len(G) = Len(F) - 1
                 /\ \A i \in 1..Len(G) : G[i].id # x.id
                 /\ \A i \in 1..(k - 1) : G[i] = F[i]
                 /\ \A i \in k..Len(G) : G[i] = F[i + 1]

\* the last toggle removed the middle one of three entries
C9_Witness ==
    /\ lastToggle.op = "toggle"
    /\ Len(lastToggle.before) = 3
    /\ PositionOf(lastToggle.before, lastToggle.skin.id) = 2
    /\ Len(favorites) = 2
    /\ favorites[1] = lastToggle.before[1]
    /\ favorites[2] = lastToggle.before[3]

\* C10: for a cosmetic list of length N >= 1 the index is 0 when the modal
\* opens, next gives (current + 1) mod N, previous gives (current - 1 + N)
\* mod N, the index stays in 0..N-1, N consecutive next steps return to the
\* index they started from, and previous from 0 gives N-1.
C10_CarouselIndex ==
    LET N == Len(championDetails.skins)
    IN  /\ lastNav.op = "open" => currentSkinIndex = 0
        /\ championDetails # NoDetails =>
            /\ N >= 1
            /\ currentSkinIndex \in 0..(N - 1)
            /\ lastNav.op = "next" => currentSkinIndex = (lastNav.before + 1) % N
            /\ lastNav.op = "prev" => currentSkinIndex = (lastNav.before - 1 + N) % N
            /\ (lastNav.op = "prev" /\ lastNav.before = 0) => currentSkinIndex = N - 1
            /\ (lastNav.op = "next" /\ lastNav.run = N) => currentSkinIndex = lastNav.start

\* previous from the first of at least three cosmetics
C10_Witness ==
    /\ Len(championDetails.skins) >= 3
    /\ lastNav.op = "prev"
    /\ lastNav.before = 0
    /\ currentSkinIndex = Len(championDetails.skins) - 1

\* the identifiers of the characters of the loaded roster
RosterIds == {champions[i].id : i \in 1..Len(champions)}

\* C11: whatever the order in which the detail responses complete, every
\* character whose detail response has succeeded has its own detail record in
\* the Detail Cache, and keeps it; once every response of a loaded roster has
\* succeeded the cache holds an entry for every roster character.
C11_CacheHoldsEverySucceededDetail ==
    /\ \A c \in ChampionKeys :
            detailFetch[c] = "ok" =>
                /\ <<c>> \in DOMAIN championDetailsCache
                /\ championDetailsCache[<<c>>] = ChampionFull(c)
    /\ (champions # <<>> /\ \A c \in ChampionKeys : detailFetch[c] = "ok") =>
            /\ DOMAIN championDetailsCache = RosterIds
            /\ \A i \in 1..Len(champions) :
                    championDetailsCache[champions[i].id].id = champions[i].id

\* every detail response of the loaded roster has succeeded, the last of them
\* while a modal was open for a character already cached
C11_Witness ==
    /\ Len(champions) = MaxChamps
    /\ \A c \in ChampionKeys : detailFetch[c] = "ok"
    /\ Cardinality(DOMAIN championDetailsCache) = MaxChamps
    /\ selectedChampion # NoChampion
    /\ Len(batches) >= 2

\* C12: the keys of the Detail Cache are identifiers of characters of the
\* loaded roster; the cache is empty while the roster is empty; a key is only
\* ever added by a succeeded pre-cache response, never by the modal's
\* fallback fetch.
C12_CacheKeysWithinRoster ==
    /\ DOMAIN championDetailsCache \subseteq RosterIds
    /\ champions = <<>> => championDetailsCache = EmptyMap
    /\ \A c \in ChampionKeys :
            <<c>> \in DOMAIN championDetailsCache => detailFetch[c] = "ok"

\* a fallback fetch has delivered the details of a character whose pre-cache
\* fetch failed, while another character is cached
C12_Witness ==
    /\ selectedChampion # NoChampion
    /\ championDetails.id = selectedChampion.id
    /\ detailFetch[selectedChampion.id[1]] = "failed"
    /\ fallbacks = 0
    /\ selectedChampion.id \notin DOMAIN championDetailsCache
    /\ championDetailsCache # EmptyMap

\* C13: in a modal opened for a character absent from the Detail Cache whose
\* pre-cache fetch has failed, once the fallback fetch has delivered the
\* details (the modal shows the carousel instead of 'Loading skins') and no
\* response is outstanding, the artwork is visible: imagesLoading is cleared.
C13_FallbackShowsArtwork ==
    ( /\ selectedChampion # NoChampion
      /\ selectedChampion.id \notin DOMAIN championDetailsCache
      /\ detailFetch[selectedChampion.id[1]] = "failed"
      /\ \A c \in ChampionKeys : detailFetch[c] # "pending"
      /\ fallbacks = 0
      /\ championDetails.id = selectedChampion.id )
    => imagesLoading = FALSE

====
